---- MODULE Spec2Model ----
(***************************************************************************)
(* Model of the initai.dev Python client (priv/static/initai.py): one run  *)
(* of InitAI.run() as a sequential state machine over the files it reads   *)
(* and writes, the answers of the server and the lines typed by the user.  *)
(*                                                                         *)
(* Text is modelled as a sequence of one-character strings so that strip,  *)
(* lower and int() are computed, not assumed.  File contents are tokens:   *)
(* "cur" is the running script, "new" the script served by the server,     *)
(* "old" a .backup left by an earlier update, "partial" a truncated write. *)
(* Faults are injected at the operations the code guards with a handler    *)
(* (the try blocks); the recovery move inside a handler is taken to work.  *)
(*                                                                         *)
(* The bootstrap installer (priv/static/install.py) has two specifications *)
(* of its own: SpecPath, repeated calls of add_to_user_path, and SpecBoot, *)
(* one run of its main().                                                  *)
(***************************************************************************)
EXTENDS Integers, Sequences, FiniteSets, TLC

\* ---------------------------------------------------------------- bounds
MaxRetries == 1
MaxClock == 3
MaxCalls == 2
MaxArgs == 3

\* ------------------------------------------------------ program constants
TicksPerSecond == 2

Absent == "absent"

\* ------------------------------------------------------------ text helpers
Whitespace == {" ", "\t"}
Digits == {"0", "1", "2", "3", "4", "5", "6", "7", "8", "9"}

DigitVal(c) ==
  CASE c = "0" -> 0 [] c = "1" -> 1 [] c = "2" -> 2 [] c = "3" -> 3
    [] c = "4" -> 4 [] c = "5" -> 5 [] c = "6" -> 6 [] c = "7" -> 7
    [] c = "8" -> 8 [] c = "9" -> 9

RECURSIVE LStrip(_)
LStrip(s) ==
  IF s = <<>> THEN <<>>
  ELSE IF Head(s) \in Whitespace THEN LStrip(Tail(s)) ELSE s

RECURSIVE RStrip(_)
RStrip(s) ==
  IF s = <<>> THEN <<>>
  ELSE IF s[Len(s)] \in Whitespace THEN RStrip(SubSeq(s, 1, Len(s) - 1)) ELSE s

\* str.strip()
Strip(s) == RStrip(LStrip(s))

LowerChar(c) ==
  CASE c = "Y" -> "y" [] c = "E" -> "e" [] c = "S" -> "s"
    [] c = "N" -> "n" [] c = "O" -> "o" [] OTHER -> c

\* str.lower()
Lower(s) == [i \in 1..Len(s) |-> LowerChar(s[i])]

\* the comparison without lower()
IsYesCaseSensitive(s) == s \in { <<"y">>, <<"y", "e", "s">> }

\* response.lower() in ['y', 'yes']
IsYes(s) == Lower(s) \in { <<"y">>, <<"y", "e", "s">> }

RECURSIVE DigitsValue(_, _)
DigitsValue(s, acc) ==
  IF s = <<>> THEN acc
  ELSE IF Head(s) = "_" THEN DigitsValue(Tail(s), acc)
  ELSE DigitsValue(Tail(s), 10 * acc + DigitVal(Head(s)))

\* the digit part of an int() literal: digits, single underscores between them
WellFormedDigits(s) ==
  /\ s # <<>>
  /\ \A i \in 1..Len(s) : s[i] \in Digits \cup {"_"}
  /\ s[1] # "_"
  /\ s[Len(s)] # "_"
  /\ \A i \in 1..(Len(s) - 1) : ~(s[i] = "_" /\ s[i + 1] = "_")

\* int(text): ok = FALSE stands for ValueError
ParseInt(s) ==
  LET t == Strip(s)
      signed == t # <<>> /\ Head(t) \in {"+", "-"}
      body == IF signed THEN Tail(t) ELSE t
      neg == signed /\ Head(t) = "-"
  IN IF WellFormedDigits(body)
     THEN [ok |-> TRUE,
           val |-> IF neg THEN 0 - DigitsValue(body, 0) ELSE DigitsValue(body, 0)]
     ELSE [ok |-> FALSE, val |-> 0]

\* ------------------------------------------------------------------ inputs
\* what the user can type at the (y/N) prompts
Answers ==
  { <<"y">>, <<"Y">>, <<"y", "e", "s">>, <<" ", "Y", "E", "S", " ">>,
    <<"n">>, <<>>, <<"y", "e", "s", "!">> }

\* what the user can type at the numbered prompts
Lines ==
  { <<"1">>, <<"2">>, <<"3">>, <<"0">>, <<"4">>, <<" ", "2", "\t">>,
    <<"a">>, <<>>, <<"-", "1">>, <<"1", ".", "5">> }

\* no line is pending
NoLine == << "<none>" >>

\* the three instruction files the tool can generate
LlmFileNames == {"CLAUDE.md", "GEMINI.md", "LLM_INSTRUCTIONS.md"}

VARIABLES
  pc,                 \* position of the run inside InitAI.run()
  exitStatus,         \* "running", or the exit status "0" / "1" of the process
  force, update, clear, clear_all,      \* self.force, self.update, ...
  scriptFile,         \* content of Path(__file__)
  tempFile,           \* content of the sibling .new file
  backupFile,         \* content of the sibling .backup file
  cfgFile,            \* .initai.json: [exists, text]
  initaiDir,          \* state of ./initai and of the package directory in it
  llmFiles,           \* which of the three instruction files exist
  globalFile,         \* content of ~/.initai
  frameworks,         \* the catalog held in memory
  selected_framework, selected_scope, selected_llm,
  download_url, target_dir, launch_claude_preference,
  lastLine,           \* the line input() has returned and the code has
                      \* not consumed yet, or NoLine
  retries,            \* history: re-prompts of the numbered prompts so far
  now,                \* the clock, in ticks since the epoch (UTC)
  tzOffset,           \* offset of local time from UTC, in seconds
  saved,              \* arguments and moment of the last save_configuration
  loaded,             \* result of the last get_current_configuration
  scriptAtStart,      \* history: scriptFile when the run started
  preSwap,            \* history: scriptFile when the swap was attempted
  filesAtStart,       \* history: the working directory when the run started
  picked,             \* history: the indices chosen at the numbered prompts
  response,           \* history: what the check-updates request came to
  confirmAnswer,      \* history: the line answered to "Update to ...?"
  log,                \* history: the steps this run has taken
  platform_system,    \* install.py: platform.system()
  env_PATH,           \* install.py: os.environ["PATH"], as text
  env_SHELL,          \* install.py: os.environ["SHELL"], as text
  rcFiles,            \* ~/.zshrc and ~/.bashrc: [exists, text]
  registry_PATH,      \* the user's PATH value in the registry: [exists, text]
  results,            \* history: what each add_to_user_path call returned
  rcHistory,          \* history: rcFiles at the start and after each call
  argv,               \* sys.argv[1:] of the bootstrap
  args,               \* the Namespace parse_known_args returned
  remaining_args,     \* the list parse_known_args returned
  installed,          \* whether <app data>/initai.py exists
  bootPc,             \* position inside install.py
  path_result,        \* what prompt_add_to_path returned
  cmd,                \* the command subprocess.run was given, or <<>>
  bootExit            \* "running", or the exit status of the bootstrap

vars ==
  << pc, exitStatus, force, update, clear, clear_all, scriptFile, tempFile,
     backupFile, cfgFile, initaiDir, llmFiles, globalFile, frameworks,
     selected_framework, selected_scope, selected_llm, download_url,
     target_dir, launch_claude_preference, lastLine, retries, now, tzOffset,
     saved, loaded, scriptAtStart, preSwap, filesAtStart, picked, response,
     confirmAnswer, log, platform_system, env_PATH, env_SHELL, rcFiles,
     registry_PATH, results, rcHistory, argv, args, remaining_args,
     installed, bootPc, path_result, cmd, bootExit >>

flagVars == << force, update, clear, clear_all >>
updateFiles == << scriptFile, tempFile, backupFile >>
workFiles == << cfgFile, initaiDir, llmFiles, globalFile >>
selectionVars ==
  << frameworks, selected_framework, selected_scope, selected_llm,
     download_url, target_dir, launch_claude_preference >>
promptVars == << lastLine, retries, picked >>
storeVars == << now, tzOffset, saved, loaded >>
historyVars == << scriptAtStart, preSwap, filesAtStart >>
checkVars == << response, confirmAnswer >>
envVars == << platform_system, env_PATH, env_SHELL >>
pathVars == << rcFiles, registry_PATH, results, rcHistory >>
launchVars == << argv, args, remaining_args, installed, path_result, cmd >>
bootVars == << envVars, pathVars, launchVars, bootPc, bootExit >>
clientVars ==
  << pc, exitStatus, flagVars, updateFiles, workFiles, selectionVars,
     promptVars, storeVars, historyVars, checkVars, log >>

\* ------------------------------------------------------ configuration store
base_url == <<"https://initai.dev">>
current_version == <<"2.1.0">>
config_file == ".initai.json"
initai_dir == "initai"

StartSeconds == 2 * 3600
TzOffsets == {0 - 3600, 0, 3600}

DigitChar(d) ==
  CASE d = 0 -> "0" [] d = 1 -> "1" [] d = 2 -> "2" [] d = 3 -> "3"
    [] d = 4 -> "4" [] d = 5 -> "5" [] d = 6 -> "6" [] d = 7 -> "7"
    [] d = 8 -> "8" [] d = 9 -> "9"

RECURSIVE FormatNat(_)
FormatNat(n) ==
  IF n < 10 THEN << DigitChar(n) >>
  ELSE Append(FormatNat(n \div 10), DigitChar(n % 10))

\* datetime.now(): the naive local wall-clock time, here in whole ticks
LocalNow(ticks, tz) == ticks + tz * TicksPerSecond

\* strftime("%Y-%m-%dT%H:%M:%SZ"): seconds resolution, a literal Z appended
Strftime(localTicks) == Append(FormatNat(localTicks \div TicksPerSecond), "Z")

\* the instant, in ticks, that an ISO-8601 timestamp designates: a trailing Z
\* is the UTC designator, so the digits are read as UTC seconds
IsoInstant(stamp) ==
  DigitsValue(SubSeq(stamp, 1, Len(stamp) - 1), 0) * TicksPerSecond

\* Path(self.initai_dir) / f"{framework}-{scope}-{llm}"
TargetDir(framework, scope, llm) ==
  << initai_dir, "/", framework, "-", scope, "-", llm >>

\* a dict is a sequence of <<key, value>> pairs in insertion order
DictKeys(d) == { d[i][1] : i \in 1..Len(d) }
DictGet(d, k) ==
  LET i == CHOOSE j \in 1..Len(d) :
             d[j][1] = k /\ \A m \in (j + 1)..Len(d) : d[m][1] # k
  IN d[i][2]

\* the config dict built by save_configuration
ConfigDict(framework, scope, llm, dir, launch_claude, ticks, tz) ==
  LET url == << "/", "init", "/", "shared", "/", framework, "/", scope >>
             \o (IF llm # "universal" THEN << "/", llm >> ELSE <<>>)
      config ==
        << << "base_url", base_url >>,
           << "framework", << framework >> >>,
           << "scope", << scope >> >>,
           << "llm", << llm >> >>,
           << "description",
              << framework, " ", scope, " development for ", llm >> >>,
           << "download_url", url >>,
           << "target_dir", dir >>,
           << "last_updated", Strftime(LocalNow(ticks, tz)) >>,
           << "script_version", current_version >> >>
  IN IF launch_claude # "None"
     THEN Append(config, << "launch_claude", << launch_claude >> >>)
     ELSE config

OpenBrace == << "{", <<>> >>
CloseBrace == << "}", <<>> >>

\* a Python value as its JSON token, and back
JsonEncode(k, v) ==
  IF k = "launch_claude"
  THEN (IF v = << "True" >> THEN << "true" >> ELSE << "false" >>)
  ELSE v
JsonDecode(k, v) ==
  IF k = "launch_claude"
  THEN (IF v = << "true" >> THEN << "True" >> ELSE << "False" >>)
  ELSE v

\* json.dump(config, f, indent=2): the text written to the file
JsonDump(d) ==
  << OpenBrace >>
  \o [i \in 1..Len(d) |-> << d[i][1], JsonEncode(d[i][1], d[i][2]) >>]
  \o << CloseBrace >>

\* json.load(f): ok = FALSE stands for the JSONDecodeError
JsonLoad(text) ==
  LET n == Len(text)
      wellFormed ==
        /\ n >= 2
        /\ text[1] = OpenBrace
        /\ text[n] = CloseBrace
        /\ \A i \in 2..(n - 1) : text[i][1] \notin {"{", "}"}
      inner == SubSeq(text, 2, n - 1)
  IN IF wellFormed
     THEN [ok |-> TRUE,
           cfg |-> [i \in 1..Len(inner) |->
                      << inner[i][1], JsonDecode(inner[i][1], inner[i][2]) >>]]
     ELSE [ok |-> FALSE, cfg |-> <<>>]

NoFile == [exists |-> FALSE, text |-> <<>>]
FileWith(text) == [exists |-> TRUE, text |-> text]

\* a config file left by an earlier successful setup
OldConfigFile ==
  FileWith(JsonDump(ConfigDict("phoenix", "backend", "gemini",
                               TargetDir("phoenix", "backend", "gemini"),
                               "None", 0, 0)))
\* a config file cut short in the middle of an earlier write
MalformedFile == FileWith(<< OpenBrace, << "base_url", base_url >> >>)

NoSave ==
  [done |-> FALSE, framework |-> "", scope |-> "", llm |-> "",
   target_dir |-> <<>>, launch_claude |-> "None", moment |-> 0]
NoLoad == [done |-> FALSE, ok |-> FALSE, cfg |-> <<>>]
NoResponse == [kind |-> "none", update_available |-> "missing"]

\* ------------------------------------------------- install.py, functions
\* Text of the bootstrap is a sequence of tokens: a directory name, a
\* separator, a blank, a line break or a fixed phrase is one token each, so
\* that split, strip, endswith and the "in" test on strings are computed.

\* get_app_data_path()
AppDataPath(system) ==
  IF system = "Windows" THEN "C:\\Users\\u\\AppData\\Local\\initai"
  ELSE "/home/u/.local/share/initai"

\* os.pathsep
PathSep(system) == IF system = "Windows" THEN ";" ELSE ":"

\* str.split(sep)
RECURSIVE SplitOn(_, _)
SplitOn(text, sep) ==
  IF \A i \in 1..Len(text) : text[i] # sep THEN << text >>
  ELSE LET i == CHOOSE k \in 1..Len(text) :
                  text[k] = sep /\ \A j \in 1..(k - 1) : text[j] # sep
       IN << SubSeq(text, 1, i - 1) >>
            \o SplitOn(SubSeq(text, i + 1, Len(text)), sep)

\* test_path_contains(path_to_check)
TestPathContains(current_path, path_to_check, sep) ==
  IF current_path = <<>> THEN FALSE
  ELSE LET path_entries == SplitOn(current_path, sep)
       IN \E k \in 1..Len(path_entries) :
            Strip(path_entries[k]) = Strip(path_to_check)

\* str.endswith(suffix)
EndsWith(text, suffix) ==
  /\ Len(text) >= Len(suffix)
  /\ SubSeq(text, Len(text) - Len(suffix) + 1, Len(text)) = suffix

\* the resource file add_to_user_path picks
ShellRc(shell) ==
  IF EndsWith(shell, <<"z", "s", "h">>) THEN "zshrc" ELSE "bashrc"

\* export_line = f'export PATH="$PATH:{path_to_add}"'
ExportLine(path_to_add) == << "export PATH=\"$PATH:", path_to_add, "\"" >>

\* needle in text, on strings
Contains(text, needle) ==
  \E i \in 0..(Len(text) - Len(needle)) :
    SubSeq(text, i + 1, i + Len(needle)) = needle

RcAbsent == [exists |-> FALSE, text |-> <<>>]
RcWith(text) == [exists |-> TRUE, text |-> text]

\* the Unix branch of add_to_user_path on the chosen resource file
UnixAdd(file, path_to_add) ==
  IF file.exists
  THEN IF ~Contains(file.text, ExportLine(path_to_add))
       THEN RcWith(file.text \o << "\n", "# Added by initai.dev", "\n" >>
                     \o ExportLine(path_to_add) \o << "\n" >>)
       ELSE file
  ELSE RcWith(<< "# Added by initai.dev", "\n" >>
                \o ExportLine(path_to_add) \o << "\n" >>)

\* the Windows branch of add_to_user_path on the registry value
WindowsAdd(value, path_to_add) ==
  LET current_path == IF value.exists THEN value.text ELSE <<>>
  IN RcWith(IF current_path # <<>>
            THEN current_path \o << ";", path_to_add >>
            ELSE << path_to_add >>)

\* the arguments a user can give the bootstrap
ArgTokens ==
  { "--base-url", "http://localhost:4000", "--force", "--verbose",
    "--update", "--clear" }

\* argparse takes a string with a leading dash for an option
IsOptionString(a) ==
  a \in {"--base-url", "--force", "--verbose", "--update", "--clear"}

\* the parser of main() before it has seen an argument
ParserDefaults ==
  [ok |-> TRUE, base_url |-> "https://initai.dev", force |-> FALSE,
   verbose |-> FALSE, remaining |-> <<>>]

\* parser.parse_known_args(): ok = FALSE stands for the parser's error exit
RECURSIVE ParseKnownArgs(_, _)
ParseKnownArgs(rest, acc) ==
  IF rest = <<>> THEN acc
  ELSE LET a == Head(rest)
       IN CASE a = "--force" ->
                 ParseKnownArgs(Tail(rest), [acc EXCEPT !.force = TRUE])
            [] a = "--verbose" ->
                 ParseKnownArgs(Tail(rest), [acc EXCEPT !.verbose = TRUE])
            [] a = "--base-url" ->
                 IF Len(rest) >= 2 /\ ~IsOptionString(rest[2])
                 THEN ParseKnownArgs(SubSeq(rest, 3, Len(rest)),
                                     [acc EXCEPT !.base_url = rest[2]])
                 ELSE [acc EXCEPT !.ok = FALSE]
            [] OTHER ->
                 ParseKnownArgs(Tail(rest),
                                [acc EXCEPT !.remaining = Append(@, a)])

\* the bootstrap is not part of a run of the client
BootIdle ==
  /\ platform_system = "Linux"
  /\ env_PATH = <<>>
  /\ env_SHELL = <<>>
  /\ rcFiles = [f \in {"zshrc", "bashrc"} |-> RcAbsent]
  /\ registry_PATH = RcAbsent
  /\ results = <<>>
  /\ rcHistory = <<>>
  /\ argv = <<>>
  /\ args = ParserDefaults
  /\ remaining_args = <<>>
  /\ installed = FALSE
  /\ bootPc = "idle"
  /\ path_result = "none"
  /\ cmd = <<>>
  /\ bootExit = "running"

\* ------------------------------------------------------------------- Init
InitSelection ==
  /\ frameworks = <<>>
  /\ selected_framework = ""
  /\ selected_scope = ""
  /\ selected_llm = ""
  /\ download_url = <<>>
  /\ target_dir = <<>>
  /\ launch_claude_preference = "None"
  /\ lastLine = NoLine
  /\ retries = 0
  /\ picked = <<>>

Init ==
  /\ BootIdle
  /\ pc = "run"
  /\ exitStatus = "running"
  /\ force \in BOOLEAN
  /\ update \in BOOLEAN
  /\ clear \in BOOLEAN
  /\ clear_all \in BOOLEAN
  /\ scriptFile = "cur"
  /\ tempFile = Absent
  /\ backupFile \in {Absent, "old"}
  /\ cfgFile \in {NoFile, OldConfigFile, MalformedFile}
  /\ initaiDir \in {"absent", "extracted"}
  /\ llmFiles \in {{}, LlmFileNames}
  /\ globalFile = "prefs"
  /\ InitSelection
  /\ now = StartSeconds * TicksPerSecond
  /\ tzOffset = 0
  /\ saved = NoSave
  /\ loaded = NoLoad
  /\ scriptAtStart = "cur"
  /\ preSwap = Absent
  /\ filesAtStart = [cfg |-> cfgFile, dir |-> initaiDir, llm |-> llmFiles]
  /\ response = NoResponse
  /\ confirmAnswer = NoLine
  /\ log = {}

\* ------------------------------------------------------------ self update
\* what the check-updates endpoint can do: the transport outcome and, when a
\* JSON object came back, the token under its update_available key
CheckResponses ==
  { [kind |-> "connection_error", update_available |-> "missing"],
    [kind |-> "malformed_json", update_available |-> "missing"],
    [kind |-> "ok", update_available |-> "true"],
    [kind |-> "ok", update_available |-> "false"],
    [kind |-> "ok", update_available |-> "missing"] }

\* http_request: urlopen or json.loads raising is re-raised as Exception
HttpRequestRaises(r) == r.kind # "ok"

\* "if 'update_available' in response": the key's presence, not its value
UpdateAvailableIfPresent(r) == r.update_available # "missing"

\* if response.get('update_available'):
UpdateAvailable(r) == r.update_available = "true"

\* a bare "except:" clause
CatchesBaseException(exc) == TRUE

\* which exceptions an "except Exception" clause catches
CatchesException(exc) == exc \notin {"SystemExit", "KeyboardInterrupt"}

\* a handler that reports the failure and exits 1
AfterCheckFailureFatal == [pc |-> "done", exitStatus |-> "1"]

\* where test_script_update's handler leaves the run: return False
AfterCheckFailure == [pc |-> "test_configuration", exitStatus |-> "running"]

\* run(), before the update check
RunStart ==
  /\ pc = "run"
  /\ UNCHANGED bootVars
  /\ ~clear
  /\ ~clear_all
  /\ pc' = "test_script_update"
  /\ UNCHANGED << exitStatus, flagVars, updateFiles, workFiles, selectionVars,
                  promptVars, storeVars, historyVars, checkVars, log >>

\* test_script_update up to the decision to prompt or to update
TestScriptUpdate ==
  /\ pc = "test_script_update"
  /\ UNCHANGED bootVars
  /\ \E r \in CheckResponses :
       /\ response' = r
       /\ IF HttpRequestRaises(r)
          THEN /\ pc' = AfterCheckFailure.pc
               /\ exitStatus' = AfterCheckFailure.exitStatus
               /\ log' = log \cup {"check_failed"}
          ELSE IF UpdateAvailable(r)
          THEN /\ pc' = IF update THEN "update_script" ELSE "confirm_update"
               /\ log' = log \cup {"update_available"}
               /\ UNCHANGED exitStatus
          ELSE /\ pc' = "test_configuration"
               /\ log' = log \cup {"up_to_date"}
               /\ UNCHANGED exitStatus
  /\ UNCHANGED << flagVars, updateFiles, workFiles, selectionVars, promptVars,
                  storeVars, historyVars, confirmAnswer >>

\* confirm_update: the (y/N) prompt
ConfirmUpdate ==
  /\ pc = "confirm_update"
  /\ UNCHANGED bootVars
  /\ lastLine # NoLine
  /\ lastLine' = NoLine
  /\ confirmAnswer' = lastLine
  /\ pc' = IF IsYes(Strip(lastLine)) THEN "update_script"
           ELSE "test_configuration"
  /\ log' = log \cup {"confirm_prompt"}
  /\ UNCHANGED << exitStatus, flagVars, updateFiles, workFiles, selectionVars,
                  retries, picked, storeVars, historyVars, response >>

\* confirm_update when input() raises EOFError: caught by test_script_update
ConfirmUpdateEOF ==
  /\ pc = "confirm_update"
  /\ UNCHANGED bootVars
  /\ lastLine = NoLine
  /\ IF CatchesException("EOFError")
     THEN /\ pc' = AfterCheckFailure.pc
          /\ exitStatus' = AfterCheckFailure.exitStatus
     ELSE /\ pc' = "done"
          /\ exitStatus' = "1"
  /\ log' = log \cup {"confirm_prompt", "check_failed"}
  /\ UNCHANGED << flagVars, updateFiles, workFiles, selectionVars, promptVars,
                  storeVars, historyVars, checkVars >>

\* update_script: urlretrieve(download_url, temp_script)
UpdateScriptDownload ==
  /\ pc = "update_script"
  /\ UNCHANGED bootVars
  /\ \/ /\ tempFile' = "new"
        /\ pc' = "update_script_backup"
        /\ log' = log \cup {"update_script", "download"}
     \/ /\ tempFile' \in {tempFile, "partial"}
        /\ pc' = "update_script_except"
        /\ log' = log \cup {"update_script", "download", "download_failed"}
  /\ UNCHANGED << exitStatus, flagVars, scriptFile, backupFile, workFiles,
                  selectionVars, promptVars, storeVars, historyVars, checkVars >>

\* update_script: shutil.copy2(current_script, backup_script)
UpdateScriptBackup ==
  /\ pc = "update_script_backup"
  /\ UNCHANGED bootVars
  /\ IF scriptFile # Absent
     THEN \/ /\ backupFile' = scriptFile
             /\ pc' = "update_script_swap"
             /\ log' = log \cup {"backup"}
          \/ /\ backupFile' \in {backupFile, "partial"}
             /\ pc' = "update_script_except"
             /\ log' = log \cup {"backup_failed"}
     ELSE /\ pc' = "update_script_swap"
          /\ UNCHANGED << backupFile, log >>
  /\ UNCHANGED << exitStatus, flagVars, scriptFile, tempFile, workFiles,
                  selectionVars, promptVars, storeVars, historyVars, checkVars >>

\* update_script: shutil.move(temp_script, current_script), then sys.exit(0)
UpdateScriptSwap ==
  /\ pc = "update_script_swap"
  /\ UNCHANGED bootVars
  /\ preSwap' = scriptFile
  /\ \/ /\ scriptFile' = tempFile
        /\ tempFile' = Absent
        /\ log' = log \cup {"swapped"}
        /\ IF CatchesException("SystemExit")
           THEN /\ pc' = "update_script_except"
                /\ UNCHANGED exitStatus
           ELSE /\ pc' = "done"
                /\ exitStatus' = "0"
     \/ /\ scriptFile' \in {scriptFile, "partial"}
        /\ log' = log \cup {"swap_failed"}
        /\ pc' = "update_script_except"
        /\ UNCHANGED << tempFile, exitStatus >>
  /\ UNCHANGED << flagVars, backupFile, workFiles, selectionVars, promptVars,
                  storeVars, scriptAtStart, filesAtStart,
                  checkVars >>

\* a handler that does not restore the backup
RestoredScriptNever(script, backup) == script

\* the script file after update_script's handler has run
RestoredScript(script, backup) == IF backup # Absent THEN backup ELSE script

\* update_script's handler: restore the .backup file if there is one, then
\* raise; the exception reaches test_script_update's handler, which returns
\* False to run()
UpdateScriptExcept ==
  /\ pc = "update_script_except"
  /\ UNCHANGED bootVars
  /\ scriptFile' = RestoredScript(scriptFile, backupFile)
  /\ backupFile' = Absent
  /\ log' = log \cup (IF backupFile # Absent THEN {"restored"} ELSE {})
                \cup {"update_error"}
  /\ IF CatchesException("Exception")
     THEN /\ pc' = AfterCheckFailure.pc
          /\ exitStatus' = AfterCheckFailure.exitStatus
     ELSE /\ pc' = "done"
          /\ exitStatus' = "1"
  /\ UNCHANGED << flagVars, tempFile, workFiles, selectionVars, promptVars,
                  storeVars, historyVars, checkVars >>

\* ------------------------------------------------------------- the catalog
Variant(n, url) == [name |-> n, download_url |-> url]
Scope(n, vs) == [name |-> n, variants |-> vs]
Framework(n, ss) == [name |-> n, scopes |-> ss]

SharedUrl(fw, sc, llm) ==
  << "/", "init", "/", "shared", "/", fw, "/", sc, "/", llm >>

\* the end-to-end example of the specification
CatExample ==
  << Framework("react",
       << Scope("frontend",
            << Variant("claude", SharedUrl("react", "frontend", "claude")) >>)
       >>) >>

\* three frameworks, scope names shared between frameworks, one framework
\* without scopes
CatMixed ==
  << Framework("react",
       << Scope("frontend",
            << Variant("claude", SharedUrl("react", "frontend", "claude")),
               Variant("universal",
                       << "/", "init", "/", "shared", "/", "react", "/",
                          "frontend" >>) >>),
          Scope("backend",
            << Variant("gemini", SharedUrl("react", "backend", "gemini")) >>)
       >>),
     Framework("phoenix",
       << Scope("backend",
            << Variant("claude", SharedUrl("phoenix", "backend", "claude")),
               Variant("gpt", << "/", "packages", "/", "phoenix-gpt.zip" >>)
            >>) >>),
     Framework("django", <<>>) >>

\* a scope without variants
CatNoVariants == << Framework("vue", << Scope("frontend", <<>>) >>) >>

\* names repeated within their parent
CatDuplicate ==
  << Framework("react",
       << Scope("backend",
            << Variant("claude", SharedUrl("react", "backend", "claude")) >>),
          Scope("backend",
            << Variant("gemini", SharedUrl("react", "backend", "gemini")) >>)
       >>),
     Framework("react",
       << Scope("fullstack",
            << Variant("universal",
                       SharedUrl("react", "fullstack", "universal")) >>) >>)
  >>

Catalogs == { <<>>, CatExample, CatMixed, CatNoVariants, CatDuplicate }

\* next((x for x in seq if x.get('name') == name), None): 0 stands for None
FirstByName(seq, name) ==
  IF \E i \in 1..Len(seq) : seq[i].name = name
  THEN CHOOSE i \in 1..Len(seq) :
         seq[i].name = name /\ \A j \in 1..(i - 1) : seq[j].name # name
  ELSE 0

\* if 1 <= selection_num <= len(items)
InRange(selection_num, n) == 1 <= selection_num /\ selection_num <= n

\* items[selection_num], wrapping at the end
ChosenOffByOne(items, selection_num) ==
  items[IF selection_num < Len(items) THEN selection_num + 1 ELSE 1]

\* items[selection_num - 1], the sequence being 1-based here
Chosen(items, selection_num) == items[selection_num]

\* the body of the three "while True" prompt loops: 0 stands for a re-prompt
Selection(items, line) ==
  LET p == ParseInt(Strip(line))
  IN IF p.ok /\ InRange(p.val, Len(items)) THEN p.val ELSE 0

\* the scopes select_scope offers, the variants select_llm offers
ScopesOf(fws, fwName) ==
  LET i == FirstByName(fws, fwName) IN IF i = 0 THEN <<>> ELSE fws[i].scopes
VariantsOf(fws, fwName, scName) ==
  LET scs == ScopesOf(fws, fwName)
      j == FirstByName(scs, scName)
  IN IF j = 0 THEN <<>> ELSE scs[j].variants

\* a lookup that searches the framework's first scope only
FindDownloadUrlFirstScope(fws, fwName, scName, llmName) ==
  LET scs == ScopesOf(fws, fwName)
      vs == IF scs = <<>> THEN <<>> ELSE scs[1].variants
      k == FirstByName(vs, llmName)
  IN IF k = 0 THEN [ok |-> FALSE, url |-> <<>>]
     ELSE [ok |-> TRUE, url |-> vs[k].download_url]

\* find_download_url: ok = FALSE stands for the "not found" exit
FindDownloadUrl(fws, fwName, scName, llmName) ==
  LET vs == VariantsOf(fws, fwName, scName)
      k == FirstByName(vs, llmName)
  IN IF k = 0 THEN [ok |-> FALSE, url |-> <<>>]
     ELSE [ok |-> TRUE, url |-> vs[k].download_url]

\* generate_llm_instructions: the file chosen for an LLM identity; "" stands
\* for the empty llm_file of an identity no branch matches
LlmFile(preferred_llm) ==
  CASE preferred_llm = "claude" -> "CLAUDE.md"
    [] preferred_llm = "gemini" -> "GEMINI.md"
    [] preferred_llm = "universal" -> "LLM_INSTRUCTIONS.md"
    [] OTHER -> ""

\* ------------------------------------------------------------------ input
\* the prompt the run is blocked at, if any
AtNumberedPrompt ==
  \/ pc = "select_framework" /\ frameworks # <<>>
  \/ pc = "select_scope" /\ ScopesOf(frameworks, selected_framework) # <<>>
  \/ /\ pc = "select_llm"
     /\ VariantsOf(frameworks, selected_framework, selected_scope) # <<>>
AtYesNoPrompt ==
  \/ pc = "confirm_update"
  \/ pc = "generate_llm_instructions" /\ LlmFile(selected_llm) \in llmFiles
  \/ pc = "launch_claude" /\ selected_llm = "claude"

\* input(): the user types a line
ReadLine ==
  /\ lastLine = NoLine
  /\ UNCHANGED bootVars
  /\ \/ AtNumberedPrompt /\ lastLine' \in Lines
     \/ AtYesNoPrompt /\ lastLine' \in Answers
  /\ UNCHANGED << pc, exitStatus, flagVars, updateFiles, workFiles,
                  selectionVars, retries, picked, storeVars, historyVars,
                  checkVars, log >>

\* ------------------------------------------------------------------- setup
\* the test with the flag inverted
HasConfigurationWhenForced(file, forced) == file.exists /\ forced

\* if config_path.exists() and not self.force
HasConfiguration(file, forced) == file.exists /\ ~forced

\* test_configuration
TestConfiguration ==
  /\ pc = "test_configuration"
  /\ UNCHANGED bootVars
  /\ pc' = IF HasConfiguration(cfgFile, force) THEN "existing"
           ELSE "get_available_packages"
  /\ log' = log \cup {"test_configuration"}
  /\ UNCHANGED << exitStatus, flagVars, updateFiles, workFiles, selectionVars,
                  promptVars, storeVars, historyVars, checkVars >>

\* get_available_packages: the request fails and the process exits 1, or the
\* catalog is held in memory
GetAvailablePackages ==
  /\ pc = "get_available_packages"
  /\ UNCHANGED bootVars
  /\ \/ /\ pc' = "done"
        /\ exitStatus' = "1"
        /\ log' = log \cup {"catalog_failed"}
        /\ UNCHANGED frameworks
     \/ /\ \E cat \in Catalogs : frameworks' = cat
        /\ pc' = "select_framework"
        /\ log' = log \cup {"catalog_fetched"}
        /\ UNCHANGED exitStatus
  /\ UNCHANGED << flagVars, updateFiles, workFiles, selected_framework,
                  selected_scope, selected_llm, download_url, target_dir,
                  launch_claude_preference, promptVars, storeVars,
                  historyVars, checkVars >>

\* sys.exit(1) of a selection step that has nothing to offer
ExitNothingToSelect ==
  /\ pc' = "done"
  /\ exitStatus' = "1"
  /\ log' = log \cup {"nothing_to_select"}
  /\ UNCHANGED << flagVars, updateFiles, workFiles, selectionVars, promptVars,
                  storeVars, historyVars, checkVars >>

\* input() raising EOFError in a numbered prompt: not a ValueError, so it
\* leaves the loop and reaches main's handler, which exits 1
ExitPromptEOF ==
  /\ lastLine = NoLine
  /\ pc' = "done"
  /\ exitStatus' = "1"
  /\ log' = log \cup {"prompt_eof"}
  /\ UNCHANGED << flagVars, updateFiles, workFiles, selectionVars, promptVars,
                  storeVars, historyVars, checkVars >>

\* one pass of a prompt loop over items: move on with the chosen name, or
\* print the retry message and prompt again
PromptStep(items, line, nextPc) ==
  LET c == Selection(items, line)
  IN /\ line # NoLine
     /\ lastLine' = NoLine
     /\ IF c # 0
        THEN /\ pc' = nextPc
             /\ picked' = Append(picked, c)
             /\ UNCHANGED retries
        ELSE /\ retries < MaxRetries
             /\ retries' = retries + 1
             /\ UNCHANGED << pc, picked >>

SelectFrameworkNone ==
  /\ pc = "select_framework"
  /\ UNCHANGED bootVars
  /\ frameworks = <<>>
  /\ ExitNothingToSelect

SelectFrameworkEOF ==
  /\ pc = "select_framework"
  /\ UNCHANGED bootVars
  /\ frameworks # <<>>
  /\ ExitPromptEOF

\* select_framework
SelectFramework ==
  /\ pc = "select_framework"
  /\ UNCHANGED bootVars
  /\ frameworks # <<>>
  /\ PromptStep(frameworks, lastLine, "select_scope")
  /\ selected_framework' =
       IF Selection(frameworks, lastLine) # 0
       THEN Chosen(frameworks, Selection(frameworks, lastLine)).name
       ELSE selected_framework
  /\ log' = log \cup {"select_framework"}
  /\ UNCHANGED << exitStatus, flagVars, updateFiles, workFiles, frameworks,
                  selected_scope, selected_llm, download_url, target_dir,
                  launch_claude_preference, storeVars, historyVars, checkVars >>

SelectScopeNone ==
  /\ pc = "select_scope"
  /\ UNCHANGED bootVars
  /\ ScopesOf(frameworks, selected_framework) = <<>>
  /\ ExitNothingToSelect

SelectScopeEOF ==
  /\ pc = "select_scope"
  /\ UNCHANGED bootVars
  /\ ScopesOf(frameworks, selected_framework) # <<>>
  /\ ExitPromptEOF

\* select_scope
SelectScope ==
  /\ pc = "select_scope"
  /\ UNCHANGED bootVars
  /\ LET scopes == ScopesOf(frameworks, selected_framework)
     IN /\ scopes # <<>>
        /\ PromptStep(scopes, lastLine, "select_llm")
        /\ selected_scope' =
             IF Selection(scopes, lastLine) # 0
             THEN Chosen(scopes, Selection(scopes, lastLine)).name
             ELSE selected_scope
  /\ log' = log \cup {"select_scope"}
  /\ UNCHANGED << exitStatus, flagVars, updateFiles, workFiles, frameworks,
                  selected_framework, selected_llm, download_url, target_dir,
                  launch_claude_preference, storeVars, historyVars, checkVars >>

SelectLlmNone ==
  /\ pc = "select_llm"
  /\ UNCHANGED bootVars
  /\ VariantsOf(frameworks, selected_framework, selected_scope) = <<>>
  /\ ExitNothingToSelect

SelectLlmEOF ==
  /\ pc = "select_llm"
  /\ UNCHANGED bootVars
  /\ VariantsOf(frameworks, selected_framework, selected_scope) # <<>>
  /\ ExitPromptEOF

\* select_llm, then find_download_url
SelectLlm ==
  /\ pc = "select_llm"
  /\ UNCHANGED bootVars
  /\ LET variants == VariantsOf(frameworks, selected_framework, selected_scope)
     IN /\ variants # <<>>
        /\ PromptStep(variants, lastLine, "find_download_url")
        /\ selected_llm' =
             IF Selection(variants, lastLine) # 0
             THEN Chosen(variants, Selection(variants, lastLine)).name
             ELSE selected_llm
  /\ log' = log \cup {"select_llm"}
  /\ UNCHANGED << exitStatus, flagVars, updateFiles, workFiles, frameworks,
                  selected_framework, selected_scope, download_url, target_dir,
                  launch_claude_preference, storeVars, historyVars, checkVars >>

\* find_download_url
FindUrl ==
  /\ pc = "find_download_url"
  /\ UNCHANGED bootVars
  /\ LET found == FindDownloadUrl(frameworks, selected_framework,
                                  selected_scope, selected_llm)
     IN IF found.ok
        THEN /\ download_url' = found.url
             /\ pc' = "download_package"
             /\ log' = log \cup {"find_download_url"}
             /\ UNCHANGED exitStatus
        ELSE /\ pc' = "done"
             /\ exitStatus' = "1"
             /\ log' = log \cup {"find_download_url", "not_found"}
             /\ UNCHANGED download_url
  /\ UNCHANGED << flagVars, updateFiles, workFiles, frameworks,
                  selected_framework, selected_scope, selected_llm, target_dir,
                  launch_claude_preference, promptVars, storeVars,
                  historyVars, checkVars >>

\* a handler that prints the error and lets the run go on
SetupFailedContinues(event) ==
  /\ pc' = "generate_llm_instructions"
  /\ UNCHANGED exitStatus
  /\ log' = log \cup {event}

\* a handler placed before the save instead of around it
SetupFailedSavesAnyway(event) ==
  /\ pc' = "save_configuration"
  /\ UNCHANGED exitStatus
  /\ log' = log \cup {event}

\* sys.exit(1) of run()'s "except Exception" around the setup steps
SetupFailed(event) ==
  /\ pc' = "done"
  /\ exitStatus' = "1"
  /\ log' = log \cup {event, "setup_failed"}

\* download_package: the target directory, mkdir, urlretrieve of the archive
DownloadPackage ==
  /\ pc = "download_package"
  /\ UNCHANGED bootVars
  /\ target_dir' = TargetDir(selected_framework, selected_scope, selected_llm)
  /\ \/ /\ initaiDir' = IF initaiDir \in {"absent", "empty_target", "zip"}
                        THEN "zip" ELSE "zip_files"
        /\ pc' = "extract_package"
        /\ log' = log \cup {"download_package"}
        /\ UNCHANGED exitStatus
     \/ /\ initaiDir' = IF initaiDir = "absent" THEN "empty_target"
                        ELSE initaiDir
        /\ SetupFailed("package_download_failed")
  /\ UNCHANGED << flagVars, updateFiles, cfgFile, llmFiles, globalFile,
                  frameworks, selected_framework, selected_scope, selected_llm,
                  download_url, launch_claude_preference, promptVars,
                  storeVars, historyVars, checkVars >>

\* download_package: extractall, then zip_file.unlink()
ExtractPackage ==
  /\ pc = "extract_package"
  /\ UNCHANGED bootVars
  /\ \/ /\ initaiDir' = "files"
        /\ pc' = "generate_llm_instructions"
        /\ log' = log \cup {"extract_package"}
        /\ UNCHANGED exitStatus
     \/ /\ initaiDir' \in {initaiDir, "zip_files"}
        /\ SetupFailed("extract_failed")
  /\ UNCHANGED << flagVars, updateFiles, cfgFile, llmFiles, globalFile,
                  selectionVars, promptVars, storeVars, historyVars, checkVars >>

\* generate_llm_instructions when nothing is in the way: no content, or a
\* write to a file name that does not exist yet (the write may fail with a
\* warning)
GenerateLlmInstructions ==
  /\ pc = "generate_llm_instructions"
  /\ UNCHANGED bootVars
  /\ LET f == LlmFile(selected_llm)
     IN /\ f \notin llmFiles
        /\ IF f = ""
           THEN /\ UNCHANGED llmFiles
                /\ log' = log \cup {"generate_llm_instructions"}
           ELSE \/ /\ llmFiles' = llmFiles \cup {f}
                   /\ log' = log \cup {"generate_llm_instructions",
                                       "instructions_written"}
                \/ /\ UNCHANGED llmFiles
                   /\ log' = log \cup {"generate_llm_instructions",
                                       "write_failed"}
  /\ pc' = "launch_claude"
  /\ UNCHANGED << exitStatus, flagVars, updateFiles, cfgFile, initaiDir,
                  globalFile, selectionVars, promptVars, storeVars,
                  historyVars, checkVars >>

\* generate_llm_instructions when the file exists: the overwrite prompt
GenerateLlmInstructionsExisting ==
  /\ pc = "generate_llm_instructions"
  /\ UNCHANGED bootVars
  /\ LlmFile(selected_llm) \in llmFiles
  /\ lastLine # NoLine
  /\ lastLine' = NoLine
  /\ pc' = "launch_claude"
  /\ log' = log \cup {"generate_llm_instructions", "overwrite_prompt"}
  /\ UNCHANGED << exitStatus, flagVars, updateFiles, workFiles, selectionVars,
                  retries, picked, storeVars, historyVars, checkVars >>

\* run(): the "Launch Claude?" question, asked only for claude
LaunchClaude ==
  /\ pc = "launch_claude"
  /\ UNCHANGED bootVars
  /\ IF selected_llm = "claude"
     THEN /\ lastLine # NoLine
          /\ lastLine' = NoLine
          /\ launch_claude_preference' =
               IF IsYes(Strip(lastLine)) THEN "True" ELSE "False"
     ELSE UNCHANGED << lastLine, launch_claude_preference >>
  /\ pc' = "save_configuration"
  /\ log' = log \cup {"launch_claude"}
  /\ UNCHANGED << exitStatus, flagVars, updateFiles, workFiles, frameworks,
                  selected_framework, selected_scope, selected_llm,
                  download_url, target_dir, retries, picked, storeVars,
                  historyVars, checkVars >>

\* save_configuration: the file after a successful write
SavedFile(framework, scope, llm, dir, launch_claude, ticks, tz) ==
  FileWith(JsonDump(ConfigDict(framework, scope, llm, dir, launch_claude,
                               ticks, tz)))

\* run(): save_configuration, then "Setup complete!" and the normal return;
\* a failing open/write reaches run()'s handler
SaveConfiguration ==
  /\ pc = "save_configuration"
  /\ UNCHANGED bootVars
  /\ \/ /\ cfgFile' = SavedFile(selected_framework, selected_scope,
                                selected_llm, target_dir,
                                launch_claude_preference, now, tzOffset)
        /\ saved' = [done |-> TRUE, framework |-> selected_framework,
                     scope |-> selected_scope, llm |-> selected_llm,
                     target_dir |-> target_dir,
                     launch_claude |-> launch_claude_preference,
                     moment |-> now]
        /\ pc' = "done"
        /\ exitStatus' = "0"
        /\ log' = log \cup {"save_configuration"}
     \/ /\ cfgFile' \in {cfgFile, FileWith(<<>>)}
        /\ SetupFailed("save_failed")
        /\ UNCHANGED saved
  /\ UNCHANGED << flagVars, updateFiles, initaiDir, llmFiles, globalFile,
                  selectionVars, promptVars, now, tzOffset, loaded,
                  historyVars, checkVars >>

\* get_current_configuration: None (ok = FALSE) for a missing or unreadable file
GetCurrentConfiguration(file) ==
  IF file.exists
  THEN [done |-> TRUE, ok |-> JsonLoad(file.text).ok,
        cfg |-> JsonLoad(file.text).cfg]
  ELSE [done |-> TRUE, ok |-> FALSE, cfg |-> <<>>]

\* run(): the branch for an existing configuration
ShowExisting ==
  /\ pc = "existing"
  /\ UNCHANGED bootVars
  /\ loaded' = GetCurrentConfiguration(cfgFile)
  /\ pc' = "done"
  /\ exitStatus' = "0"
  /\ log' = log \cup {"get_current_configuration"}
  /\ UNCHANGED << flagVars, updateFiles, workFiles, selectionVars, promptVars,
                  now, tzOffset, saved, historyVars, checkVars >>

\* ------------------------------------------------------------------- clear
\* a loop that removes no instruction file
ClearedLlmFilesKeepsAll(files, undeletable) == files

\* clear_initai_folder: rmtree and each unlink may fail with a warning
ClearedDir(dir, rmtreeOk) == IF dir # "absent" /\ rmtreeOk THEN "absent" ELSE dir
ClearedLlmFiles(files, undeletable) == files \cap undeletable

\* clear_all_local_files: the config file after the unlink
ClearedConfig(file, unlinkOk) == IF file.exists /\ unlinkOk THEN NoFile ELSE file

\* run() with --clear: clear_initai_folder, return
RunClear ==
  /\ pc = "run"
  /\ UNCHANGED bootVars
  /\ clear
  /\ \E rmtreeOk \in BOOLEAN, undeletable \in SUBSET llmFiles :
       /\ initaiDir' = ClearedDir(initaiDir, rmtreeOk)
       /\ llmFiles' = ClearedLlmFiles(llmFiles, undeletable)
       /\ log' = log \cup {"clear_initai_folder"}
                     \cup (IF rmtreeOk /\ undeletable = {} THEN {}
                           ELSE {"remove_failed"})
  /\ pc' = "done"
  /\ exitStatus' = "0"
  /\ UNCHANGED << flagVars, updateFiles, cfgFile, globalFile, selectionVars,
                  promptVars, storeVars, historyVars, checkVars >>

\* run() with --clear-all and without --clear: clear_all_local_files, return
RunClearAll ==
  /\ pc = "run"
  /\ UNCHANGED bootVars
  /\ ~clear
  /\ clear_all
  /\ \E rmtreeOk \in BOOLEAN, undeletable \in SUBSET llmFiles,
        unlinkOk \in BOOLEAN :
       /\ initaiDir' = ClearedDir(initaiDir, rmtreeOk)
       /\ llmFiles' = ClearedLlmFiles(llmFiles, undeletable)
       /\ cfgFile' = ClearedConfig(cfgFile, unlinkOk)
       /\ log' = log \cup {"clear_initai_folder", "clear_all_local_files"}
                     \cup (IF rmtreeOk /\ undeletable = {} /\ unlinkOk THEN {}
                           ELSE {"remove_failed"})
  /\ pc' = "done"
  /\ exitStatus' = "0"
  /\ UNCHANGED << flagVars, updateFiles, globalFile, selectionVars, promptVars,
                  storeVars, historyVars, checkVars >>

\* ------------------------------------------------------------ specification
Next ==
  \/ ReadLine
  \/ RunStart
  \/ RunClear
  \/ RunClearAll
  \/ TestScriptUpdate
  \/ ConfirmUpdate
  \/ ConfirmUpdateEOF
  \/ UpdateScriptDownload
  \/ UpdateScriptBackup
  \/ UpdateScriptSwap
  \/ UpdateScriptExcept
  \/ TestConfiguration
  \/ GetAvailablePackages
  \/ SelectFrameworkNone
  \/ SelectFrameworkEOF
  \/ SelectFramework
  \/ SelectScopeNone
  \/ SelectScopeEOF
  \/ SelectScope
  \/ SelectLlmNone
  \/ SelectLlmEOF
  \/ SelectLlm
  \/ FindUrl
  \/ DownloadPackage
  \/ ExtractPackage
  \/ GenerateLlmInstructions
  \/ GenerateLlmInstructionsExisting
  \/ LaunchClaude
  \/ SaveConfiguration
  \/ ShowExisting

Spec == Init /\ [][Next]_vars

\* ------------------------------------------- the configuration store alone
\* save_configuration and get_current_configuration called in any order on
\* the same working directory, as successive runs do
StoreFrameworks == {"react", "phoenix"}
StoreScopes == {"frontend", "backend"}
StoreLlms == {"claude", "universal", "gpt"}

InitStore ==
  /\ BootIdle
  /\ pc = "store"
  /\ exitStatus = "running"
  /\ force = FALSE
  /\ update = FALSE
  /\ clear = FALSE
  /\ clear_all = FALSE
  /\ scriptFile = "cur"
  /\ tempFile = Absent
  /\ backupFile = Absent
  /\ cfgFile \in {NoFile, OldConfigFile, MalformedFile}
  /\ initaiDir = "files"
  /\ llmFiles = {}
  /\ globalFile = "prefs"
  /\ InitSelection
  /\ now = StartSeconds * TicksPerSecond
  /\ tzOffset \in TzOffsets
  /\ saved = NoSave
  /\ loaded = NoLoad
  /\ scriptAtStart = "cur"
  /\ preSwap = Absent
  /\ filesAtStart = [cfg |-> cfgFile, dir |-> initaiDir, llm |-> llmFiles]
  /\ response = NoResponse
  /\ confirmAnswer = NoLine
  /\ log = {}

\* time passes
StoreTick ==
  /\ pc = "store"
  /\ UNCHANGED bootVars
  /\ now < StartSeconds * TicksPerSecond + MaxClock
  /\ now' = now + 1
  /\ UNCHANGED << pc, exitStatus, flagVars, updateFiles, workFiles,
                  selectionVars, promptVars, tzOffset, saved, loaded,
                  historyVars, checkVars, log >>

\* save_configuration(framework, scope, llm, target_dir, launch_claude)
StoreSave ==
  /\ pc = "store"
  /\ UNCHANGED bootVars
  /\ \E fw \in StoreFrameworks, sc \in StoreScopes, llm \in StoreLlms,
        launch \in {"None", "True", "False"} :
       /\ cfgFile' = SavedFile(fw, sc, llm, TargetDir(fw, sc, llm), launch,
                               now, tzOffset)
       /\ saved' = [done |-> TRUE, framework |-> fw, scope |-> sc,
                    llm |-> llm, target_dir |-> TargetDir(fw, sc, llm),
                    launch_claude |-> launch, moment |-> now]
  /\ loaded' = NoLoad
  /\ log' = log \cup {"save_configuration"}
  /\ UNCHANGED << pc, exitStatus, flagVars, updateFiles, initaiDir, llmFiles,
                  globalFile, selectionVars, promptVars, now, tzOffset,
                  historyVars, checkVars >>

\* get_current_configuration()
StoreLoad ==
  /\ pc = "store"
  /\ UNCHANGED bootVars
  /\ loaded' = GetCurrentConfiguration(cfgFile)
  /\ log' = log \cup {"get_current_configuration"}
  /\ UNCHANGED << pc, exitStatus, flagVars, updateFiles, workFiles,
                  selectionVars, promptVars, now, tzOffset, saved,
                  historyVars, checkVars >>

NextStore == StoreTick \/ StoreSave \/ StoreLoad

SpecStore == InitStore /\ [][NextStore]_vars

\* ---------------------------------------------------- install.py, actions
\* the client does not run while the bootstrap does
ClientIdle ==
  /\ pc = "idle"
  /\ exitStatus = "running"
  /\ force = FALSE
  /\ update = FALSE
  /\ clear = FALSE
  /\ clear_all = FALSE
  /\ scriptFile = "cur"
  /\ tempFile = Absent
  /\ backupFile = Absent
  /\ cfgFile = NoFile
  /\ initaiDir = "absent"
  /\ llmFiles = {}
  /\ globalFile = "prefs"
  /\ InitSelection
  /\ now = StartSeconds * TicksPerSecond
  /\ tzOffset = 0
  /\ saved = NoSave
  /\ loaded = NoLoad
  /\ scriptAtStart = "cur"
  /\ preSwap = Absent
  /\ filesAtStart = [cfg |-> cfgFile, dir |-> initaiDir, llm |-> llmFiles]
  /\ response = NoResponse
  /\ confirmAnswer = NoLine
  /\ log = {}

\* values of PATH, joined with the platform's separator
PathTexts(system) ==
  LET sep == PathSep(system)
      dir == AppDataPath(system)
  IN { <<>>,
       << "/usr/bin" >>,
       << "/usr/bin", sep, dir >>,
       << "/usr/bin", sep, " ", dir, " " >>,
       << "/usr/bin", sep, dir, "/bin" >> }

\* values of SHELL
Shells ==
  { <<>>,
    << "/", "b", "i", "n", "/", "z", "s", "h" >>,
    << "/", "b", "i", "n", "/", "b", "a", "s", "h" >> }

\* what a shell resource file can hold before the bootstrap touches it
RcContents(dir) ==
  { RcAbsent,
    RcWith(<<>>),
    RcWith(<< "alias ll=ls", "\n" >>),
    RcWith(<< "alias ll=ls" >>),
    RcWith(ExportLine(dir) \o << "\n" >>),
    RcWith(<< "alias ll=ls", "\n", "# Added by initai.dev", "\n" >>
             \o ExportLine(dir) \o << "\n" >>),
    RcWith(<< "# " >> \o ExportLine(dir) \o << "\n" >>),
    RcWith(ExportLine("/opt/bin") \o << "\n" >>) }

\* one call of add_to_user_path(path_to_add) returning ret; False stands for
\* the handler of an exception raised before anything was written
AddToUserPathCall(path_to_add, ret) ==
  /\ IF TestPathContains(env_PATH, << path_to_add >>,
                         PathSep(platform_system))
     THEN ret /\ UNCHANGED << rcFiles, registry_PATH >>
     ELSE \/ ~ret /\ UNCHANGED << rcFiles, registry_PATH >>
          \/ /\ ret
             /\ IF platform_system = "Windows"
                THEN /\ registry_PATH' = WindowsAdd(registry_PATH, path_to_add)
                     /\ UNCHANGED rcFiles
                ELSE /\ rcFiles' =
                          [rcFiles EXCEPT ![ShellRc(env_SHELL)] =
                                            UnixAdd(@, path_to_add)]
                     /\ UNCHANGED registry_PATH
  /\ results' = Append(results, ret)
  /\ rcHistory' = Append(rcHistory, rcFiles')

InitPath ==
  /\ ClientIdle
  /\ platform_system \in {"Linux", "Windows"}
  /\ env_PATH \in PathTexts(platform_system)
  /\ env_SHELL \in Shells
  /\ rcFiles \in [{"zshrc", "bashrc"} ->
                    RcContents(AppDataPath(platform_system))]
  /\ registry_PATH \in {RcAbsent, RcWith(<<>>), RcWith(<< "C:\\bin" >>)}
  /\ results = <<>>
  /\ rcHistory = << rcFiles >>
  /\ argv = <<>>
  /\ args = ParserDefaults
  /\ remaining_args = <<>>
  /\ installed = TRUE
  /\ bootPc = "add_to_user_path"
  /\ path_result = "none"
  /\ cmd = <<>>
  /\ bootExit = "running"

\* add_to_user_path(str(app_data_path)), called again and again
AddToUserPath ==
  /\ bootPc = "add_to_user_path"
  /\ Len(results) < MaxCalls
  /\ \E ret \in BOOLEAN :
       AddToUserPathCall(AppDataPath(platform_system), ret)
  /\ UNCHANGED << clientVars, envVars, launchVars, bootPc, bootExit >>

NextPath == AddToUserPath

SpecPath == InitPath /\ [][NextPath]_vars

\* the argument lists of the bootstrap
Argvs == UNION { [1..n -> ArgTokens] : n \in 0..MaxArgs }

MainScriptPath(system) ==
  IF system = "Windows" THEN "C:\\Users\\u\\AppData\\Local\\initai\\initai.py"
  ELSE "/home/u/.local/share/initai/initai.py"

InitBoot ==
  /\ ClientIdle
  /\ platform_system \in {"Linux", "Windows"}
  /\ env_PATH \in PathTexts(platform_system)
  /\ env_SHELL = << "/", "b", "i", "n", "/", "z", "s", "h" >>
  /\ rcFiles \in { [f \in {"zshrc", "bashrc"} |-> RcAbsent],
                   [f \in {"zshrc", "bashrc"} |->
                      IF f = "zshrc" THEN RcWith(<< "alias ll=ls", "\n" >>)
                      ELSE RcAbsent] }
  /\ registry_PATH = RcAbsent
  /\ results = <<>>
  /\ rcHistory = << rcFiles >>
  /\ argv \in Argvs
  /\ args = ParserDefaults
  /\ remaining_args = <<>>
  /\ installed \in BOOLEAN
  /\ bootPc = "main"
  /\ path_result = "none"
  /\ cmd = <<>>
  /\ bootExit = "running"

\* main(): args, remaining_args = parser.parse_known_args()
BootParse ==
  /\ bootPc = "main"
  /\ LET parsed == ParseKnownArgs(argv, ParserDefaults)
     IN IF parsed.ok
        THEN /\ args' = parsed
             /\ remaining_args' = parsed.remaining
             /\ bootPc' = "test_initai_installed"
             /\ UNCHANGED bootExit
        ELSE /\ bootPc' = "done"
             /\ bootExit' = "2"
             /\ UNCHANGED << args, remaining_args >>
  /\ UNCHANGED << clientVars, envVars, pathVars, argv, installed,
                  path_result, cmd >>

\* main(): if test_initai_installed(app_data_path) and not args.force
BootCheckInstalled ==
  /\ bootPc = "test_initai_installed"
  /\ bootPc' =
       IF installed /\ ~args.force
       THEN IF ~TestPathContains(env_PATH,
                                 << AppDataPath(platform_system) >>,
                                 PathSep(platform_system))
            THEN "prompt_installed"
            ELSE "launch_installed"
       ELSE "install_initai_script"
  /\ UNCHANGED << clientVars, envVars, pathVars, launchVars, bootExit >>

\* install_initai_script: False makes main() exit with status 1
BootInstall ==
  /\ bootPc = "install_initai_script"
  /\ \/ /\ installed' = TRUE
        /\ bootPc' = "prompt_fresh"
        /\ UNCHANGED bootExit
     \/ /\ bootPc' = "done"
        /\ bootExit' = "1"
        /\ UNCHANGED installed
  /\ UNCHANGED << clientVars, envVars, pathVars, argv, args, remaining_args,
                  path_result, cmd >>

\* prompt_add_to_path(app_data_path), at either of its two call sites
BootPromptAddToPath ==
  /\ bootPc \in {"prompt_installed", "prompt_fresh"}
  /\ LET dir == AppDataPath(platform_system)
     IN IF TestPathContains(env_PATH, << dir >>, PathSep(platform_system))
        THEN /\ path_result' = "already_in_path"
             /\ UNCHANGED pathVars
        ELSE \E line \in Answers :
               LET answer == Strip(line)
               IN IF answer = <<>> \/ Lower(answer) = << "y" >>
                  THEN \E ret \in BOOLEAN :
                         /\ AddToUserPathCall(dir, ret)
                         /\ path_result' = IF ret THEN "added_to_path"
                                           ELSE "failed_to_add"
                  ELSE /\ path_result' = "skipped"
                       /\ UNCHANGED pathVars
  /\ bootPc' = IF bootPc = "prompt_installed" THEN "launch_installed"
               ELSE "launch_fresh"
  /\ UNCHANGED << clientVars, envVars, argv, args, remaining_args,
                  installed, cmd, bootExit >>

\* input() raises EOFError, which nothing catches
BootPromptEOF ==
  /\ bootPc \in {"prompt_installed", "prompt_fresh"}
  /\ ~TestPathContains(env_PATH, << AppDataPath(platform_system) >>,
                       PathSep(platform_system))
  /\ bootPc' = "done"
  /\ bootExit' = "1"
  /\ UNCHANGED << clientVars, envVars, pathVars, launchVars >>

\* the launch of the branch "already installed"
BootLaunchInstalled ==
  /\ bootPc = "launch_installed"
  /\ bootPc' = "done"
  /\ \/ /\ cmd' = << "python", MainScriptPath(platform_system),
                     "--base-url", args.base_url >> \o remaining_args
        /\ bootExit' = "0"
     \/ /\ bootExit' = "1"
        /\ UNCHANGED cmd
  /\ UNCHANGED << clientVars, envVars, pathVars, argv, args, remaining_args,
                  installed, path_result >>

\* the launch after a fresh installation
BootLaunchFresh ==
  /\ bootPc = "launch_fresh"
  /\ bootPc' = "done"
  /\ \/ /\ cmd' = << "python", MainScriptPath(platform_system),
                     "--base-url", args.base_url >>
        /\ bootExit' = "0"
     \/ /\ bootExit' = "1"
        /\ UNCHANGED cmd
  /\ UNCHANGED << clientVars, envVars, pathVars, argv, args, remaining_args,
                  installed, path_result >>

NextBoot ==
  \/ BootParse
  \/ BootCheckInstalled
  \/ BootInstall
  \/ BootPromptAddToPath
  \/ BootPromptEOF
  \/ BootLaunchInstalled
  \/ BootLaunchFresh

SpecBoot == InitBoot /\ [][NextBoot]_vars

\* ------------------------------------------------------------------ claims
UpdatePcs ==
  { "update_script", "update_script_backup", "update_script_swap",
    "update_script_except" }
UpdateEvents ==
  { "update_script", "download", "download_failed", "backup", "backup_failed",
    "swapped", "swap_failed", "restored", "update_error" }
SetupEvents ==
  { "test_configuration", "catalog_fetched", "catalog_failed",
    "select_framework", "select_scope", "select_llm", "find_download_url",
    "download_package", "extract_package", "generate_llm_instructions",
    "launch_claude", "save_configuration", "get_current_configuration" }
ReachedConfigurationCheck ==
  pc = "test_configuration" \/ "test_configuration" \in log

\* C1: when the check-updates endpoint answers update_available=false, the
\* run never enters update_script (no download, backup or swap) and the
\* script file keeps the content it had at the start of the run, whatever
\* the --update flag and the user's inputs are.
C1_UpToDateLeavesScript ==
  (response.kind = "ok" /\ response.update_available = "false")
    => /\ log \cap UpdateEvents = {}
       /\ pc \notin UpdatePcs
       /\ scriptFile = scriptAtStart

C1_Witness ==
  /\ response.kind = "ok"
  /\ response.update_available = "false"
  /\ update
  /\ pc = "done"

C3_UpdateFailureIsFatal ==
  (({"download_failed", "swap_failed"} \cap log # {})
     /\ pc # "update_script_except")
    => /\ pc = "done"
       /\ exitStatus = "1"
       /\ log \cap SetupEvents = {}

\* the answers that are y or yes up to case and surrounding blanks
YesAnswers ==
  { <<"y">>, <<"Y">>, <<"y", "e", "s">>, <<" ", "Y", "E", "S", " ">> }
UpdateAccepted == update \/ confirmAnswer \in YesAnswers

\* C4: when an update is reported, the download is entered if and only if
\* --update is set or the user answers y/yes; with --update no prompt is
\* shown, and after any other answer nothing is downloaded or swapped and
\* the run goes on to the configuration check.
C4_DownloadIffForcedOrConfirmed ==
  /\ (pc \in UpdatePcs \/ "download" \in log)
       => (response.update_available = "true" /\ UpdateAccepted)
  /\ (response.update_available = "true" /\ UpdateAccepted)
       => (pc \in UpdatePcs \/ "download" \in log)
  /\ update => (pc # "confirm_update" /\ "confirm_prompt" \notin log)
  /\ (confirmAnswer # NoLine /\ confirmAnswer \notin YesAnswers)
       => /\ log \cap UpdateEvents = {}
          /\ scriptFile = scriptAtStart
          /\ ReachedConfigurationCheck

C4_Witness ==
  /\ ~update
  /\ confirmAnswer = <<" ", "Y", "E", "S", " ">>
  /\ "download" \in log

\* C5: after a successful swap the process has terminated with exit status 0
\* and none of the configuration and setup steps has run.
C5_SwapSuccessExits ==
  "swapped" \in log
    => /\ pc = "done"
       /\ exitStatus = "0"
       /\ scriptFile = "new"
       /\ log \cap SetupEvents = {}

C5_Witness == "swapped" \in log /\ "confirm_prompt" \in log

\* C6: when the check-updates request fails, no update is downloaded or
\* swapped in and the run proceeds to the configuration check.
C6_CheckFailureIsNoUpdate ==
  response.kind \in {"connection_error", "malformed_json"}
    => /\ log \cap UpdateEvents = {}
       /\ pc \notin UpdatePcs \cup {"confirm_update"}
       /\ exitStatus # "1" \/ "test_configuration" \in log
       /\ scriptFile = scriptAtStart
       /\ tempFile = Absent
       /\ ReachedConfigurationCheck

C6_Witness ==
  /\ response.kind = "malformed_json"
  /\ "test_configuration" \in log

\* what Python's int() makes of each line the user can type
LineValue(line) ==
  CASE line = <<"1">> -> [int |-> TRUE, val |-> 1]
    [] line = <<"2">> -> [int |-> TRUE, val |-> 2]
    [] line = <<"3">> -> [int |-> TRUE, val |-> 3]
    [] line = <<"0">> -> [int |-> TRUE, val |-> 0]
    [] line = <<"4">> -> [int |-> TRUE, val |-> 4]
    [] line = <<" ", "2", "\t">> -> [int |-> TRUE, val |-> 2]
    [] line = <<"-", "1">> -> [int |-> TRUE, val |-> 0 - 1]
    [] OTHER -> [int |-> FALSE, val |-> 0]

\* C7: select_framework returns the framework at position i exactly when the
\* line read is an integer i in 1..N; any other line only re-prompts: the
\* run stays at the prompt, nothing is selected and the process goes on.
C7_SelectFrameworkByIndex ==
  [][ (pc = "select_framework" /\ lastLine # NoLine)
        => LET e == LineValue(lastLine)
           IN IF e.int /\ 1 <= e.val /\ e.val <= Len(frameworks)
              THEN /\ pc' = "select_scope"
                   /\ selected_framework' = frameworks[e.val].name
              ELSE /\ pc' = "select_framework"
                   /\ exitStatus' = "running"
                   /\ selected_framework' = selected_framework
                   /\ retries' = retries + 1 ]_vars

C7_Witness ==
  /\ pc = "select_scope"
  /\ retries > 0
  /\ Len(frameworks) = 3
  /\ picked = << 2 >>

NamesUnique(items) ==
  \A i, j \in 1..Len(items) : items[i].name = items[j].name => i = j
UniqueNames(fws) ==
  /\ NamesUnique(fws)
  /\ \A i \in 1..Len(fws) :
       /\ NamesUnique(fws[i].scopes)
       /\ \A j \in 1..Len(fws[i].scopes) :
            NamesUnique(fws[i].scopes[j].variants)

\* C8: with names unique within their parent, after indices (i, j, k) the
\* scopes offered are those of frameworks[i], the variants offered those of
\* its scopes[j], the lookup never ends in "not found", the URL is that of
\* variants[k], and the target directory is initai/<framework>-<scope>-<llm>.
C8_SelectionResolves ==
  UniqueNames(frameworks)
    => /\ "not_found" \notin log
       /\ Len(picked) >= 1
            => /\ selected_framework = frameworks[picked[1]].name
               /\ ScopesOf(frameworks, selected_framework)
                    = frameworks[picked[1]].scopes
       /\ Len(picked) >= 2
            => /\ selected_scope
                    = frameworks[picked[1]].scopes[picked[2]].name
               /\ VariantsOf(frameworks, selected_framework, selected_scope)
                    = frameworks[picked[1]].scopes[picked[2]].variants
       /\ (Len(picked) = 3 /\ pc # "find_download_url")
            => LET f == frameworks[picked[1]]
                   sc == f.scopes[picked[2]]
                   v == sc.variants[picked[3]]
               IN /\ selected_llm = v.name
                  /\ download_url = v.download_url
                  /\ "download_package" \in log
                       => target_dir = << "initai", "/", f.name, "-",
                                          sc.name, "-", v.name >>

C8_Witness ==
  /\ frameworks = CatMixed
  /\ picked = << 2, 1, 2 >>
  /\ "download_package" \in log

\* the value stored under a key of the loaded configuration
Loaded(k) == DictGet(loaded.cfg, k)

\* C9: save_configuration followed by get_current_configuration yields a
\* config whose fields other than last_updated are the saved values, and
\* whose last_updated, read as the ISO-8601 timestamp it is written as, is
\* not earlier than the moment of the save (compared in whole seconds).
C9_SaveLoadRoundTrip ==
  (saved.done /\ loaded.done)
    => /\ loaded.ok
       /\ DictKeys(loaded.cfg)
            = { "base_url", "framework", "scope", "llm", "description",
                "download_url", "target_dir", "last_updated",
                "script_version" }
              \cup (IF saved.launch_claude = "None" THEN {}
                    ELSE {"launch_claude"})
       /\ Loaded("framework") = << saved.framework >>
       /\ Loaded("scope") = << saved.scope >>
       /\ Loaded("llm") = << saved.llm >>
       /\ Loaded("target_dir") = saved.target_dir
       /\ saved.launch_claude # "None"
            => Loaded("launch_claude") = << saved.launch_claude >>
       /\ IsoInstant(Loaded("last_updated")) \div TicksPerSecond
            >= saved.moment \div TicksPerSecond

\* C10: a run with --clear ends with the package directory and the three
\* instruction files absent and the global preferences file unchanged; a
\* run with --clear-all ends so too and with .initai.json absent.  Stated
\* here for the runs in which no removal failed.
C10_ClearRemovesEverything ==
  (pc = "done" /\ (clear \/ clear_all) /\ "remove_failed" \notin log)
    => /\ initaiDir = "absent"
       /\ llmFiles = {}
       /\ globalFile = "prefs"
       /\ clear_all => ~cfgFile.exists

\* C11 as stated: --clear deletes .initai.json together with the instruction
\* files and the package directory (in the runs where no removal failed).
C11_ClearDeletesConfig ==
  (pc = "done" /\ clear /\ "remove_failed" \notin log)
    => /\ ~cfgFile.exists
       /\ initaiDir = "absent"
       /\ llmFiles = {}

\* C11, amended: --clear removes the package directory and the instruction
\* files (each unless its removal fails) and leaves .initai.json as it was.
C11_ClearKeepsConfig ==
  (pc = "done" /\ clear)
    => /\ cfgFile = filesAtStart.cfg
       /\ "remove_failed" \notin log
            => (initaiDir = "absent" /\ llmFiles = {})

C11_Witness ==
  /\ pc = "done"
  /\ clear
  /\ "remove_failed" \notin log
  /\ filesAtStart.cfg.exists
  /\ filesAtStart.dir # "absent"
  /\ filesAtStart.llm # {}

\* the file the specification assigns to an LLM identity
ExpectedLlmFile(llm) ==
  CASE llm = "claude" -> "CLAUDE.md"
    [] llm = "gemini" -> "GEMINI.md"
    [] OTHER -> "LLM_INSTRUCTIONS.md"

\* C12: every LLM identity gets one of the three files, any identity other
\* than claude and gemini the file LLM_INSTRUCTIONS.md; so when that file did
\* not exist and no write failed, it exists after generate_llm_instructions.
C12_InstructionFileForEveryIdentity ==
  ("generate_llm_instructions" \in log
     /\ ExpectedLlmFile(selected_llm) \notin filesAtStart.llm
     /\ "write_failed" \notin log)
    => /\ LlmFile(selected_llm) = ExpectedLlmFile(selected_llm)
       /\ ExpectedLlmFile(selected_llm) \in llmFiles

InstallFailed == {"package_download_failed", "extract_failed"} \cap log # {}

\* C13: a failed catalog fetch, package download or extraction ends the run
\* with status 1 before any later step; the target directory created for
\* the package stays in place.
C13_FetchAndInstallFailuresFatal ==
  /\ "catalog_failed" \in log
       => /\ pc = "done"
          /\ exitStatus = "1"
          /\ log \cap { "select_framework", "select_scope", "select_llm",
                        "find_download_url", "download_package",
                        "extract_package", "generate_llm_instructions",
                        "launch_claude", "save_configuration" } = {}
  /\ InstallFailed
       => /\ pc = "done"
          /\ exitStatus = "1"
          /\ log \cap { "generate_llm_instructions", "launch_claude",
                        "save_configuration", "save_failed" } = {}
          /\ initaiDir # "absent"

C13_Witness ==
  /\ "extract_failed" \in log
  /\ filesAtStart.dir = "absent"
  /\ initaiDir = "zip"

\* C16: .initai.json is written only in a run with --force or one that found
\* no config file; a run without --force that finds one fetches, selects,
\* downloads and saves nothing and leaves the file as it was.
C16_ConfigWrittenOnlyOnSetup ==
  /\ (cfgFile.exists /\ cfgFile # filesAtStart.cfg)
       => (force \/ ~filesAtStart.cfg.exists)
  /\ (~force /\ filesAtStart.cfg.exists /\ "test_configuration" \in log)
       => /\ cfgFile = filesAtStart.cfg
          /\ log \cap { "catalog_fetched", "catalog_failed",
                        "select_framework", "select_scope", "select_llm",
                        "find_download_url", "download_package",
                        "package_download_failed", "extract_package",
                        "save_configuration", "save_failed" } = {}

C16_Witness ==
  /\ ~force
  /\ filesAtStart.cfg = OldConfigFile
  /\ pc = "done"
  /\ "get_current_configuration" \in log

\* C17: a malformed .initai.json makes get_current_configuration return None
\* and the run go on as it does for a missing file, to the setup workflow,
\* without an error status at the configuration check.
C17_MalformedHandledAsMissing ==
  (filesAtStart.cfg = MalformedFile /\ ~force /\ "test_configuration" \in log)
    => /\ loaded.done => ~loaded.ok
       /\ \/ pc = "get_available_packages"
          \/ {"catalog_fetched", "catalog_failed"} \cap log # {}

\* C18: when the download of the new script fails, the script file keeps the
\* content it had when the run started, also when a .backup file of an
\* earlier update lies next to it.
C18_DownloadFailureKeepsScript ==
  ("download_failed" \in log /\ pc # "update_script_except")
    => scriptFile = scriptAtStart

\* C19: .initai.json is written only after the archive was downloaded,
\* extracted and deleted in the same run, the save is the last step, and a
\* run ending in a download or extraction failure leaves the file as it was.
C19_SaveIsLastStep ==
  /\ (cfgFile.exists /\ cfgFile # filesAtStart.cfg)
       => /\ {"download_package", "extract_package"} \subseteq log
          /\ initaiDir = "files"
  /\ "save_configuration" \in log => (pc = "done" /\ exitStatus = "0")
  /\ InstallFailed => cfgFile = filesAtStart.cfg

C19_Witness ==
  /\ "extract_failed" \in log
  /\ force
  /\ filesAtStart.cfg = OldConfigFile
  /\ cfgFile = OldConfigFile

NetworkEvents ==
  { "check_failed", "update_available", "up_to_date", "download",
    "catalog_fetched", "catalog_failed", "download_package",
    "package_download_failed" }

\* C20: every run with --clear-all ends with .initai.json absent, also when
\* --clear is given too, and a run with --clear or --clear-all makes no
\* network request (in the runs where no removal failed).
C20_ClearAllAlwaysRemovesConfig ==
  (pc = "done" /\ "remove_failed" \notin log)
    => /\ clear_all => ~cfgFile.exists
       /\ (clear \/ clear_all)
            => (response = NoResponse /\ log \cap NetworkEvents = {})

\* how many lines of text are exactly line
CountLines(text, line) ==
  LET lines == SplitOn(text, "\n")
  IN Cardinality({ k \in 1..Len(lines) : lines[k] = line })

\* C14: on a Unix-like system whose PATH lacks the directory, after one or
\* more add_to_user_path calls that all returned True the chosen resource
\* file exists, holds exactly one line export PATH="$PATH:<dir>", begins with
\* what it held before, and is as the first call left it.
C14_OneExportLine ==
  (/\ platform_system # "Windows"
   /\ ~TestPathContains(env_PATH, << AppDataPath(platform_system) >>, ":")
   /\ Len(results) >= 1
   /\ \A i \in 1..Len(results) : results[i])
    => LET rc == ShellRc(env_SHELL)
           before == rcHistory[1][rc]
           after == rcFiles[rc]
       IN /\ after.exists
          /\ CountLines(after.text,
                        ExportLine(AppDataPath(platform_system))) = 1
          /\ SubSeq(after.text, 1, Len(before.text)) = before.text
          /\ after = rcHistory[2][rc]

\* C15: a bootstrap run that launches the main script gives it, after the
\* script path and --base-url <url>, exactly the arguments its own parser
\* did not recognise, in their order, whether or not it installed the script
\* in this run.
C15_ForwardsRemainingArgs ==
  cmd # <<>>
    => SubSeq(cmd, 5, Len(cmd)) = remaining_args

\* C21: after a successful setup the download_url stored in .initai.json
\* is the download_url of the selected variant in the catalog, the path the
\* package was downloaded from.
C21_StoredUrlIsCatalogUrl ==
  "save_configuration" \in log
    => /\ cfgFile.exists
       /\ JsonLoad(cfgFile.text).ok
       /\ DictGet(JsonLoad(cfgFile.text).cfg, "download_url") = download_url

====
